---------------------------- MODULE Spec2Model ----------------------------
(***************************************************************************)
(* A model of confluence-exporter: the paginated collection of the         *)
(* Confluence client (GetSpaces, GetPages, GetChildPages), the single page *)
(* fetch (GetPage), the recursive page-tree resolution (fetchPageTree,     *)
(* collectChildPages), the page loop of the driver (exportSpace, main),    *)
(* the table of package db (InitDB, InsertPage, CloseDB), getSafeFilename  *)
(* and the exportSpace that writes the Markdown files itself.              *)
(*                                                                         *)
(* The Confluence server is the environment.  It holds lists of records    *)
(* (identified by positive integers; 0 stands for Go's empty string) and   *)
(* answers every request with one of: a 200 response carrying a JSON page  *)
(* of results, a transport failure, a response whose body is not JSON, or  *)
(* a non-2xx response whose body is a JSON error object.                   *)
(***************************************************************************)
EXTENDS Integers, Sequences, FiniteSets, TLC

(***************************************************************************)
(* Bounds of the model.                                                    *)
(***************************************************************************)
\* The longest list of records the server holds for one listing.
MaxRecords == 51

\* The page ids of a page tree are 1..MaxNodes.
MaxNodes == 4

\* The responses of one run that may deviate from the faithful one.
MaxFaults == 1

\* The depth of recursion at which the Go runtime gives up (it ends the
\* process with a fatal stack overflow); deeper than any walk over
\* MaxNodes distinct pages needs.
MaxStackDepth == 7

\* The page trees of a whole run of main have the page ids 1..MaxMainNodes.
MaxMainNodes == 3

\* The spaces the server holds, and the pages of one space.
MaxSpaces == 2
MaxSpacePages == 2

\* The InsertPage calls of a behaviour and the uids they draw from.
MaxInserts == 3
MaxUids == 2

\* The length of the names getSafeFilename is applied to.
MaxNameLen == 2

\* The pages of the space written to files and the attachments of a page.
MaxFilePages == 2
MaxAttachments == 1

(***************************************************************************)
(* Program constants.                                                      *)
(***************************************************************************)
\* limit := 25 in GetSpaces, GetPages and GetChildPages.
limit == 25

(***************************************************************************)
(* The deviations of the server.                                           *)
(***************************************************************************)
\* The statuses the server answers with besides 200.
ErrorStatuses == {404, 500}

\* Page lengths a misbehaving server may cut a page down to.
ShortCaps == {0, 10, 24}

VARIABLES
    \* ---- the paginated collection in progress -------------------------
    cPc,        \* "idle" | "loop" | "await" | "done" | "failed"
    cKind,      \* "GetSpaces" | "GetPages" | "GetChildPages" | "none"
    cList,      \* the records the server holds for the listing collected
    cParent,    \* parentPageID of GetChildPages, 0 otherwise
    start,      \* the local start
    allPages,   \* the local allPages / allSpaces
    cRet,       \* what the call returned: [pages, err]
    requests,   \* history: the (start, limit) of every request of the call
    responses,  \* history: the response to every request of the call
    \* ---- the server ----------------------------------------------------
    kids,       \* page id -> the child listing the server holds for it
    ancestor,   \* page id -> the last ancestor GetPage reports, 0 if none
    faults,     \* history: the number of unfaithful responses so far
    \* ---- fetchPageTree / collectChildPages -----------------------------
    tPc,        \* "idle" | "awaitPage" | "listing" | "iterate" |
                \* "returned" | "failed" | "overflow"
    rootPageID, \* the argument of fetchPageTree
    stack,      \* the active calls, fetchPageTree's frame at the bottom
    tRet,       \* what fetchPageTree returned: [pages, err]
    listed,     \* history: the ids GetChildPages was called with
    callErrors, \* history: the errors GetPage / GetChildPages returned
    \* ---- main / exportSpace ---------------------------------------------
    mPc,        \* "off" | "start" | "created" | "ready" | "tree" |
                \* "treeLoop" | "spacesListing" | "spaceLoop" |
                \* "pagesListing" | "pageLoop" | "exited"
    spaceKey,   \* cfg.Export.SpaceKey (0: empty); cfg.Export.PageID is
                \* rootPageID (0: empty)
    srvSpaces,  \* server: the spaces
    srvPages,   \* server: space key -> the pages of the space
    spaces,     \* the local spaces of main
    spaceIdx,   \* the position of the loop over spaces
    pages,      \* the local pages of main / of exportSpace
    pageIdx,    \* the position of the loop over pages
    saveLog,    \* history: every SavePage call, with its result
    hState,     \* the output handler: "none" | "created" | "initialized" |
                \* "closed"
    closeCalls, \* history: the number of handler.Close calls
    exitCode,   \* -1 while running, then the exit status of the process
    processed,  \* progress.processedPages
    failedSpaces, \* history: the spaces exportSpace returned an error for
    initCalls,  \* history: the number of handler.Initialize calls
    exportCalls, \* history: the space keys exportSpace was called with
    \* ---- package db: the embedded store ---------------------------------
    dbRevision, \* "primaryKey" | "plainInsert": the revision of package db
    dbOpen,     \* the *sql.DB of InitDB is open
    tableExists, \* the database file holds the table pages
    rows,       \* the rows of the table pages, in insertion order
    inserted,   \* history: the pages of the InsertPage calls that returned nil
    dbErr,      \* the error the last call of package db returned
    \* ---- getSafeFilename ------------------------------------------------
    name,       \* the argument, a sequence of characters
    safeName,   \* the result, <<"pending">> before the call
    \* ---- exportSpace writing Markdown files -----------------------------
    fPc,        \* "off" | "call" | "mkdir" | "convert" | "write" |
                \* "attachments" | "mkdirAttachments" | "download" | "returned"
    srvFilePages, \* server: the pages of the space, with their titles
    includeAttachments, \* cfg.Export.IncludeAttachments
    filePages,  \* the local pages
    fileIdx,    \* the position of the loop over pages
    markdown,   \* the local markdown
    files,      \* the .md files of spaceOutputDir: file name -> content
    attachments, \* the local attachments
    attIdx,     \* the position of the loop over attachments
    fileLog,    \* history: every conversion, write and attachment request
    fileRet     \* what exportSpace returned: "none" | "nil" | "error"

colVars == <<cPc, cKind, cList, cParent, start, allPages, cRet, requests,
             responses>>
srvVars == <<kids, ancestor, faults>>
treeVars == <<tPc, rootPageID, stack, tRet, listed, callErrors>>
storeVars == <<dbRevision, dbOpen, tableExists, rows, inserted, dbErr>>
nameVars == <<name, safeName>>
fileVars == <<fPc, srvFilePages, includeAttachments, filePages, fileIdx,
              markdown, files, attachments, attIdx, fileLog, fileRet>>
\* The state of the packages the driver of this revision does not reach.
otherVars == <<storeVars, nameVars, fileVars>>
driverVars == <<mPc, spaceKey, srvSpaces, srvPages, spaces, spaceIdx, pages,
                pageIdx, saveLog, hState, closeCalls, exitCode, processed,
                failedSpaces, initCalls, exportCalls>>
mainVars == <<driverVars, otherVars>>
vars == <<colVars, srvVars, treeVars, mainVars>>

\* What a step of the collection loop leaves alone.
outsideCollector == <<kids, ancestor, tPc, rootPageID, stack, tRet, listed,
                      mainVars>>

Min(a, b) == IF a < b THEN a ELSE b

\* The records 1..n in list order.
Records(n) == [i \in 1..n |-> i]

Is2xx(status) == status \in 200..299

NoRet == [pages |-> <<>>, err |-> "none"]

(***************************************************************************)
(* Decoding of one result of a listing into the model's value.             *)
(***************************************************************************)
DecodeRecord_NoParent(kind, rec, parent) ==
    IF kind = "GetSpaces" THEN [Key |-> rec]
    ELSE [ID |-> rec, ParentID |-> 0]

DecodeRecord(kind, rec, parent) ==
    IF kind = "GetSpaces" THEN [Key |-> rec]
    ELSE IF kind = "GetChildPages" THEN [ID |-> rec, ParentID |-> parent]
    ELSE [ID |-> rec, ParentID |-> 0]

DecodeResults(kind, results, parent) ==
    [i \in 1..Len(results) |-> DecodeRecord(kind, results[i], parent)]

(***************************************************************************)
(* The pieces of one iteration of the collection loop.                     *)
(***************************************************************************)
Accumulate_Overwrite(acc, decoded) == decoded

\* allPages = append(allPages, page) for every result.
Accumulate(acc, decoded) == acc \o decoded

IsShortPage_OnlyEmpty(results) == Len(results) = 0

\* if len(result.Results) < limit { break }
IsShortPage(results) == Len(results) < limit

NextStart_ByCount(s, received) == s + received

\* start += limit (whatever number of results was received)
NextStart(s, received) == s + limit

ErrorReturn_Partial(acc, err) == [pages |-> acc, err |-> err]

\* return nil, err
ErrorReturn(acc, err) == [pages |-> <<>>, err |-> err]

\* return allPages, nil
OkReturn(acc) == [pages |-> acc, err |-> "nil"]

(***************************************************************************)
(* The server's answer to (start, limit) on a list: the records at         *)
(* positions start .. start+n-1 (0-based), n the page length it chooses.   *)
(***************************************************************************)
Slice(list, s, n) ==
    IF s >= Len(list) THEN <<>>
    ELSE SubSeq(list, s + 1, Min(s + n, Len(list)))

FaithfulPage(list, s, l) == Slice(list, s, l)

\* The pages the server may answer with: the faithful one, a shorter one,
\* or one record more than asked for.
PossiblePages(list, s, l) ==
    {FaithfulPage(list, s, l)}
        \cup {Slice(list, s, Min(c, l)) : c \in ShortCaps}
        \cup {Slice(list, s, l + 1)}

(***************************************************************************)
(* A caller enters GetSpaces / GetPages / GetChildPages.                   *)
(***************************************************************************)
BeginCollection(kind, list, parent) ==
    /\ cPc' = "loop"
    /\ cKind' = kind
    /\ cList' = list
    /\ cParent' = parent
    /\ start' = 0
    /\ allPages' = <<>>
    /\ cRet' = NoRet
    /\ requests' = <<>>
    /\ responses' = <<>>

\* The head of the loop: params start, limit; c.sendRequest(...)
SendRequest ==
    /\ cPc = "loop"
    /\ cPc' = "await"
    /\ requests' = Append(requests, [start |-> start, limit |-> limit])
    /\ UNCHANGED <<cKind, cList, cParent, start, allPages, cRet, responses>>
    /\ UNCHANGED <<outsideCollector, faults, callErrors>>

\* The rest of an iteration once a body was decoded into results.
ProcessResults(status, results) ==
    LET decoded == DecodeResults(cKind, results, cParent)
        acc == Accumulate(allPages, decoded)
    IN  /\ responses' = Append(responses,
                [status |-> status, decoded |-> TRUE, results |-> results])
        /\ allPages' = acc
        /\ IF IsShortPage(results)
             THEN /\ cPc' = "done"
                  /\ cRet' = OkReturn(acc)
                  /\ start' = start
             ELSE /\ cPc' = "loop"
                  /\ cRet' = cRet
                  /\ start' = NextStart(start, Len(results))
        /\ UNCHANGED <<cKind, cList, cParent, requests>>
        /\ UNCHANGED <<outsideCollector, callErrors>>

\* The rest of an iteration on an error of sendRequest or of Decode.
ProcessError(status, err) ==
    /\ responses' = Append(responses,
            [status |-> status, decoded |-> FALSE, results |-> <<>>])
    /\ cPc' = "failed"
    /\ cRet' = ErrorReturn(allPages, err)
    /\ callErrors' = Append(callErrors, err)
    /\ UNCHANGED <<cKind, cList, cParent, start, allPages, requests>>
    /\ UNCHANGED outsideCollector

\* An unfaithful response: the run has a budget of them.
Fault ==
    /\ faults < MaxFaults
    /\ faults' = faults + 1

\* The server answers 200 with a JSON page of results.
RecvPage ==
    /\ cPc = "await"
    /\ LET req == requests[Len(requests)]
       IN  \E page \in PossiblePages(cList, req.start, req.limit) :
               /\ IF page = FaithfulPage(cList, req.start, req.limit)
                    THEN faults' = faults
                    ELSE Fault
               /\ ProcessResults(200, page)

\* HTTPClient.Do fails: no response (status 0).
RecvTransportError ==
    /\ cPc = "await"
    /\ Fault
    /\ ProcessError(0, "transport")

\* The body is not JSON (whatever the status): Decode fails.
RecvUndecodable ==
    /\ cPc = "await"
    /\ Fault
    /\ \E status \in {200} \cup ErrorStatuses :
           ProcessError(status, "decode")

\* A non-2xx status with a JSON error object as body: sendRequest returns
\* the response with a nil error, Decode succeeds and leaves Results empty.
RecvStatusJSON ==
    /\ cPc = "await"
    /\ Fault
    /\ \E status \in ErrorStatuses :
           ProcessResults(status, <<>>)

CollectorStep ==
    \/ SendRequest
    \/ RecvPage
    \/ RecvTransportError
    \/ RecvUndecodable
    \/ RecvStatusJSON

\* Package db is not in use.
StoreOff ==
    /\ dbRevision = "primaryKey"
    /\ dbOpen = FALSE
    /\ tableExists = FALSE
    /\ rows = <<>>
    /\ inserted = <<>>
    /\ dbErr = "nil"

\* getSafeFilename is not called.
NamesOff ==
    /\ name = <<>>
    /\ safeName = <<"pending">>

\* The exportSpace that writes the files itself is not running.
FileOff ==
    /\ fPc = "off"
    /\ srvFilePages = <<>>
    /\ includeAttachments = FALSE
    /\ filePages = <<>>
    /\ fileIdx = 1
    /\ markdown = 0
    /\ files = <<>>
    /\ attachments = <<>>
    /\ attIdx = 1
    /\ fileLog = <<>>
    /\ fileRet = "none"

\* main is not running: the state of its locals in SpecCollect and SpecTree.
DriverOff ==
    /\ initCalls = 0
    /\ exportCalls = <<>>
    /\ mPc = "off"
    /\ spaceKey = 0
    /\ srvSpaces = <<>>
    /\ srvPages = [k \in 1..MaxSpaces |-> <<>>]
    /\ spaces = <<>>
    /\ spaceIdx = 1
    /\ pages = <<>>
    /\ pageIdx = 1
    /\ saveLog = <<>>
    /\ hState = "none"
    /\ closeCalls = 0
    /\ exitCode = -1
    /\ processed = 0
    /\ failedSpaces = <<>>

MainOff ==
    /\ DriverOff
    /\ StoreOff
    /\ NamesOff
    /\ FileOff

(***************************************************************************)
(* SpecCollect: one paginated collection against a list of 0..MaxRecords   *)
(* records.                                                                *)
(***************************************************************************)
CollectKinds == {"GetSpaces", "GetPages", "GetChildPages"}

\* No call of the client is in progress and the server holds no pages.
ClientOff ==
    /\ cPc = "idle"
    /\ cKind = "none"
    /\ cList = <<>>
    /\ cParent = 0
    /\ start = 0
    /\ allPages = <<>>
    /\ cRet = NoRet
    /\ requests = <<>>
    /\ responses = <<>>
    /\ kids = [i \in 0..MaxNodes |-> <<>>]
    /\ ancestor = [i \in 0..MaxNodes |-> 0]
    /\ faults = 0
    /\ tPc = "idle"
    /\ rootPageID = 0
    /\ stack = <<>>
    /\ tRet = NoRet
    /\ listed = <<>>
    /\ callErrors = <<>>

InitCollect ==
    /\ cPc = "idle"
    /\ cKind = "none"
    /\ cList \in {Records(n) : n \in 0..MaxRecords}
    /\ cParent = 0
    /\ start = 0
    /\ allPages = <<>>
    /\ cRet = NoRet
    /\ requests = <<>>
    /\ responses = <<>>
    /\ kids = [i \in 0..MaxNodes |-> <<>>]
    /\ ancestor = [i \in 0..MaxNodes |-> 0]
    /\ faults = 0
    /\ tPc = "idle"
    /\ rootPageID = 0
    /\ stack = <<>>
    /\ tRet = NoRet
    /\ listed = <<>>
    /\ callErrors = <<>>
    /\ MainOff

CallCollection ==
    /\ cPc = "idle"
    /\ \E kind \in CollectKinds :
           BeginCollection(kind, cList, IF kind = "GetChildPages" THEN 1 ELSE 0)
    /\ UNCHANGED <<outsideCollector, faults, callErrors>>

NextCollect ==
    \/ CallCollection
    \/ SendRequest
    \/ RecvPage
    \/ RecvTransportError
    \/ RecvUndecodable
    \/ RecvStatusJSON

SpecCollect == InitCollect /\ [][NextCollect]_vars


(***************************************************************************)
(* The page trees the server may hold.  Page 1 is the top page; every      *)
(* other page i has one parent below i, and a parent lists its children in *)
(* ascending or in descending order of id.  One extra entry, child c at    *)
(* the end of the listing of page a, may make the listings malformed: a    *)
(* page listed twice, under two parents, or as its own descendant.         *)
(***************************************************************************)
Ids == 1..MaxNodes

ParentMaps(n) == {p \in [2..n -> 1..n] : \A i \in 2..n : p[i] < i}

NoEdge == <<0, 0>>

ExtraEdges(n) == {NoEdge} \cup ((1..n) \X (1..n))

\* The extra entries that list a page a second time without a cycle.
ForwardEdges(n) == {e \in ExtraEdges(n) : e = NoEdge \/ e[1] < e[2]}

\* The ids of S as a sequence, ascending or descending.
RECURSIVE Ordered(_, _)
Ordered(S, descending) ==
    IF S = {} THEN <<>>
    ELSE LET x == IF descending
                    THEN CHOOSE y \in S : \A z \in S : z <= y
                    ELSE CHOOSE y \in S : \A z \in S : y <= z
         IN  <<x>> \o Ordered(S \ {x}, descending)

Listing(p, descending, edge) ==
    [a \in 0..MaxNodes |->
        Ordered({i \in DOMAIN p : p[i] = a}, descending)
            \o (IF edge # NoEdge /\ edge[1] = a THEN <<edge[2]>> ELSE <<>>)]

Ancestors(p) == [a \in 0..MaxNodes |-> IF a \in DOMAIN p THEN p[a] ELSE 0]

(***************************************************************************)
(* fetchPageTree and collectChildPages as a machine over the stack of      *)
(* active calls.  A frame holds the page of the call, the children read    *)
(* for it, the index of the child the loop is at, and the pages collected. *)
(***************************************************************************)
NewFrame(page) == [page |-> page, children |-> <<>>, i |-> 1, pages |-> <<page>>]

AppendSubtree_Prepend(acc, subtree) == subtree \o acc

\* allPages = append(allPages, subtree...) / pages = append(pages, subtree...)
AppendSubtree(acc, subtree) == acc \o subtree

TreeErrorReturn_Partial(stk, err) ==
    [pages |-> IF stk = <<>> THEN <<>> ELSE stk[1].pages, err |-> err]

\* return nil, err (in every active call)
TreeErrorReturn(stk, err) == [pages |-> <<>>, err |-> err]

Top == stack[Len(stack)]

\* client.GetChildPages(page.ID) for the page of a new frame.
EnterListing(stk, page) ==
    /\ stack' = Append(stk, NewFrame(page))
    /\ listed' = Append(listed, page.ID)
    /\ BeginCollection("GetChildPages", kids[page.ID], page.ID)
    /\ tPc' = "listing"

\* fetchPageTree(client, rootPageID): client.GetPage(rootPageID) is sent.
CallFetchPageTree ==
    /\ tPc = "idle"
    /\ tPc' = "awaitPage"
    /\ UNCHANGED <<colVars, srvVars, rootPageID, stack, tRet, listed, callErrors>>
    /\ UNCHANGED mainVars

\* GetPage: 200 with the page as JSON.
GetPageOK ==
    /\ tPc = "awaitPage"
    /\ EnterListing(<<>>, [ID |-> rootPageID, ParentID |-> ancestor[rootPageID]])
    /\ UNCHANGED <<srvVars, rootPageID, tRet, callErrors>>
    /\ UNCHANGED mainVars

\* GetPage: a non-2xx status with a JSON error object: Decode succeeds and
\* leaves every field of the page empty; GetPage returns it with nil error.
GetPageStatusJSON ==
    /\ tPc = "awaitPage"
    /\ Fault
    /\ EnterListing(<<>>, [ID |-> 0, ParentID |-> 0])
    /\ UNCHANGED <<kids, ancestor, rootPageID, tRet, callErrors>>
    /\ UNCHANGED mainVars

\* GetPage: sendRequest or Decode fails.
GetPageError ==
    /\ tPc = "awaitPage"
    /\ Fault
    /\ \E err \in {"transport", "decode"} :
           /\ callErrors' = Append(callErrors, err)
           /\ tRet' = TreeErrorReturn(stack, err)
    /\ tPc' = "failed"
    /\ UNCHANGED <<colVars, kids, ancestor, rootPageID, stack, listed>>
    /\ UNCHANGED mainVars

\* GetChildPages returned the children.
TreeListed ==
    /\ tPc = "listing"
    /\ cPc = "done"
    /\ stack' = [stack EXCEPT ![Len(stack)].children = cRet.pages,
                              ![Len(stack)].i = 1]
    /\ tPc' = "iterate"
    /\ UNCHANGED <<colVars, srvVars, rootPageID, tRet, listed, callErrors>>
    /\ UNCHANGED mainVars

\* GetChildPages returned an error: every active call returns nil, err.
TreeListFailed ==
    /\ tPc = "listing"
    /\ cPc = "failed"
    /\ tRet' = TreeErrorReturn(stack, cRet.err)
    /\ stack' = <<>>
    /\ tPc' = "failed"
    /\ UNCHANGED <<colVars, srvVars, rootPageID, listed, callErrors>>
    /\ UNCHANGED mainVars

\* for _, child := range children: collectChildPages(client, child)
TreeDescend ==
    /\ tPc = "iterate"
    /\ Top.i <= Len(Top.children)
    /\ IF Len(stack) >= MaxStackDepth
         THEN /\ tPc' = "overflow"
              /\ UNCHANGED <<colVars, stack, listed>>
         ELSE EnterListing(stack, Top.children[Top.i])
    /\ UNCHANGED <<srvVars, rootPageID, tRet, callErrors>>
    /\ UNCHANGED mainVars

\* The loop over the children is over: return pages, nil.
TreeReturn ==
    /\ tPc = "iterate"
    /\ Top.i > Len(Top.children)
    /\ IF Len(stack) = 1
         THEN /\ tRet' = OkReturn(Top.pages)
              /\ stack' = <<>>
              /\ tPc' = "returned"
         ELSE /\ stack' = [SubSeq(stack, 1, Len(stack) - 1)
                             EXCEPT ![Len(stack) - 1].pages =
                                        AppendSubtree(@, Top.pages),
                                    ![Len(stack) - 1].i = @ + 1]
              /\ UNCHANGED <<tRet, tPc>>
    /\ UNCHANGED <<colVars, srvVars, rootPageID, listed, callErrors>>
    /\ UNCHANGED mainVars

(***************************************************************************)
(* SpecTree: one call of fetchPageTree against a page tree.                *)
(***************************************************************************)
InitTree ==
    /\ cPc = "idle"
    /\ cKind = "none"
    /\ cList = <<>>
    /\ cParent = 0
    /\ start = 0
    /\ allPages = <<>>
    /\ cRet = NoRet
    /\ requests = <<>>
    /\ responses = <<>>
    /\ \E p \in ParentMaps(MaxNodes), descending \in BOOLEAN,
          edge \in ExtraEdges(MaxNodes) :
           /\ kids = Listing(p, descending, edge)
           /\ ancestor = Ancestors(p)
    /\ faults = 0
    /\ tPc = "idle"
    /\ rootPageID \in Ids
    /\ stack = <<>>
    /\ tRet = NoRet
    /\ listed = <<>>
    /\ callErrors = <<>>
    /\ MainOff

NextTree ==
    \/ CallFetchPageTree
    \/ GetPageOK
    \/ GetPageStatusJSON
    \/ GetPageError
    \/ TreeListed
    \/ TreeListFailed
    \/ TreeDescend
    \/ TreeReturn
    \/ SendRequest
    \/ RecvPage
    \/ RecvTransportError
    \/ RecvUndecodable
    \/ RecvStatusJSON

SpecTree == InitTree /\ [][NextTree]_vars

(***************************************************************************)
(* main and exportSpace.  handler is the output handler of the run; the    *)
(* outcome of NewHandler, Initialize and SavePage is the environment's.    *)
(***************************************************************************)
\* page.SpaceKey of the pages of a page tree: they live in one space.
TreeScope == 0

SaveResults == {"nil", "error"}

NextPageIndex_Return(i, n, result) == IF result = "nil" THEN i + 1 ELSE n + 1

\* The loop over pages goes on to the next page, also after
\* if err := handler.SavePage(...); err != nil { ...; continue }
NextPageIndex(i, n, result) == i + 1

NextSpaceIndex_Stop(i, n, failed) == IF failed THEN n + 1 ELSE i + 1

\* The loop over spaces goes on to the next space, also after
\* if err := exportSpace(...); err != nil { ...; continue }
NextSpaceIndex(i, n, failed) == i + 1

Fatal_ExitZero ==
    /\ exitCode' = 0
    /\ mPc' = "exited"

\* log.Fatalf: os.Exit(1), deferred calls do not run.
Fatal ==
    /\ exitCode' = 1
    /\ mPc' = "exited"

\* main returns: the deferred handler.Close() runs, exit status 0.
ReturnFromMain ==
    /\ closeCalls' = closeCalls + 1
    /\ hState' = "closed"
    /\ exitCode' = 0
    /\ mPc' = "exited"

\* handler.SavePage(client, page, scope) for the page the loop is at.
SavePageAt(scope) ==
    \E result \in SaveResults :
        /\ saveLog' = Append(saveLog,
                [scope |-> scope, page |-> pages[pageIdx].ID, result |-> result])
        /\ pageIdx' = NextPageIndex(pageIdx, Len(pages), result)

\* output.NewHandler(...); defer handler.Close()
MainNewHandler ==
    /\ mPc = "start"
    /\ \/ /\ hState' = "created"
          /\ mPc' = "created"
          /\ UNCHANGED exitCode
       \/ /\ Fatal
          /\ UNCHANGED hState
    /\ UNCHANGED <<colVars, srvVars, treeVars, spaceKey, srvSpaces, srvPages,
                   spaces, spaceIdx, pages, pageIdx, saveLog, closeCalls,
                   processed, failedSpaces,
                   initCalls, exportCalls, otherVars>>

MainInitialize_IgnoreError ==
    /\ mPc = "created"
    /\ initCalls' = initCalls + 1
    /\ mPc' = "ready"
    /\ \/ hState' = "initialized"
       \/ UNCHANGED hState
    /\ UNCHANGED <<colVars, srvVars, treeVars, spaceKey, srvSpaces, srvPages,
                   spaces, spaceIdx, pages, pageIdx, saveLog, closeCalls,
                   exitCode, processed, failedSpaces, exportCalls, otherVars>>

\* handler.Initialize()
MainInitialize ==
    /\ mPc = "created"
    /\ initCalls' = initCalls + 1
    /\ \/ /\ hState' = "initialized"
          /\ mPc' = "ready"
          /\ UNCHANGED exitCode
       \/ /\ Fatal
          /\ UNCHANGED hState
    /\ UNCHANGED <<colVars, srvVars, treeVars, spaceKey, srvSpaces, srvPages,
                   spaces, spaceIdx, pages, pageIdx, saveLog, closeCalls,
                   processed, failedSpaces,
                   exportCalls, otherVars>>

\* cfg.Export.PageID != "": fetchPageTree(client, cfg.Export.PageID)
MainStartTree ==
    /\ mPc = "ready"
    /\ rootPageID # 0
    /\ tPc' = "awaitPage"
    /\ mPc' = "tree"
    /\ UNCHANGED <<colVars, srvVars, rootPageID, stack, tRet, listed,
                   callErrors, spaceKey, srvSpaces, srvPages, spaces,
                   spaceIdx, pages, pageIdx, saveLog, hState, closeCalls,
                   exitCode, processed, failedSpaces,
                   initCalls, exportCalls, otherVars>>

\* fetchPageTree returned an error: log.Fatalf.
MainTreeFailed ==
    /\ mPc = "tree"
    /\ tPc = "failed"
    /\ Fatal
    /\ UNCHANGED <<colVars, srvVars, treeVars, spaceKey, srvSpaces, srvPages,
                   spaces, spaceIdx, pages, pageIdx, saveLog, hState,
                   closeCalls, processed, failedSpaces,
                   initCalls, exportCalls, otherVars>>

\* fetchPageTree returned the pages: progress = NewProgressTracker(len(pages))
MainTreeReturned ==
    /\ mPc = "tree"
    /\ tPc = "returned"
    /\ IF Len(tRet.pages) = 0
         THEN /\ Fatal
              /\ UNCHANGED <<pages, pageIdx, processed>>
         ELSE /\ pages' = tRet.pages
              /\ pageIdx' = 1
              /\ processed' = 0
              /\ mPc' = "treeLoop"
              /\ UNCHANGED exitCode
    /\ UNCHANGED <<colVars, srvVars, treeVars, spaceKey, srvSpaces, srvPages,
                   spaces, spaceIdx, saveLog, hState, closeCalls,
                   failedSpaces,
                   initCalls, exportCalls, otherVars>>

\* One iteration of for _, page := range pages in main.
MainTreeSavePage ==
    /\ mPc = "treeLoop"
    /\ pageIdx <= Len(pages)
    /\ processed' = processed + 1
    /\ SavePageAt(TreeScope)
    /\ UNCHANGED <<colVars, srvVars, treeVars, mPc, spaceKey, srvSpaces,
                   srvPages, spaces, spaceIdx, pages, hState, closeCalls,
                   exitCode, failedSpaces,
                   initCalls, exportCalls, otherVars>>

\* The loop over the pages of the tree is over; main runs to its end.
MainTreeDone ==
    /\ mPc = "treeLoop"
    /\ pageIdx > Len(pages)
    /\ ReturnFromMain
    /\ UNCHANGED <<colVars, srvVars, treeVars, spaceKey, srvSpaces, srvPages,
                   spaces, spaceIdx, pages, pageIdx, saveLog, processed,
                   failedSpaces,
                   initCalls, exportCalls, otherVars>>

\* cfg.Export.SpaceKey == "": client.GetSpaces()
MainStartSpaces ==
    /\ mPc = "ready"
    /\ rootPageID = 0
    /\ spaceKey = 0
    /\ BeginCollection("GetSpaces", srvSpaces, 0)
    /\ mPc' = "spacesListing"
    /\ UNCHANGED <<srvVars, treeVars, spaceKey, srvSpaces, srvPages, spaces,
                   spaceIdx, pages, pageIdx, saveLog, hState, closeCalls,
                   exitCode, processed, failedSpaces,
                   initCalls, exportCalls, otherVars>>

\* Enter the loop over spaces: progress = NewProgressTracker(len(spaces))
EnterSpaceLoop(list) ==
    /\ spaces' = list
    /\ spaceIdx' = 1
    /\ processed' = 0
    /\ mPc' = "spaceLoop"

\* spaces = []models.Space{{Key: cfg.Export.SpaceKey}}
MainSingleSpace ==
    /\ mPc = "ready"
    /\ rootPageID = 0
    /\ spaceKey # 0
    /\ EnterSpaceLoop(<<[Key |-> spaceKey]>>)
    /\ UNCHANGED <<colVars, srvVars, treeVars, spaceKey, srvSpaces, srvPages,
                   pages, pageIdx, saveLog, hState, closeCalls, exitCode,
                   failedSpaces,
                   initCalls, exportCalls, otherVars>>

\* GetSpaces returned the spaces.
MainSpacesListed ==
    /\ mPc = "spacesListing"
    /\ cPc = "done"
    /\ EnterSpaceLoop(cRet.pages)
    /\ UNCHANGED <<colVars, srvVars, treeVars, spaceKey, srvSpaces, srvPages,
                   pages, pageIdx, saveLog, hState, closeCalls, exitCode,
                   failedSpaces,
                   initCalls, exportCalls, otherVars>>

\* GetSpaces returned an error: log.Fatalf.
MainSpacesFailed ==
    /\ mPc = "spacesListing"
    /\ cPc = "failed"
    /\ Fatal
    /\ UNCHANGED <<colVars, srvVars, treeVars, spaceKey, srvSpaces, srvPages,
                   spaces, spaceIdx, pages, pageIdx, saveLog, hState,
                   closeCalls, processed, failedSpaces,
                   initCalls, exportCalls, otherVars>>

\* exportSpace(client, space.Key, ...): client.GetPages(spaceKey)
ExportSpaceCall ==
    /\ mPc = "spaceLoop"
    /\ spaceIdx <= Len(spaces)
    /\ BeginCollection("GetPages", srvPages[spaces[spaceIdx].Key], 0)
    /\ exportCalls' = Append(exportCalls, spaces[spaceIdx].Key)
    /\ mPc' = "pagesListing"
    /\ UNCHANGED <<srvVars, treeVars, spaceKey, srvSpaces, srvPages, spaces,
                   spaceIdx, pages, pageIdx, saveLog, hState, closeCalls,
                   exitCode, processed, failedSpaces,
                   initCalls, otherVars>>

\* GetPages returned an error: exportSpace returns it, main logs it and
\* continues with the next space.
ExportSpaceFailed ==
    /\ mPc = "pagesListing"
    /\ cPc = "failed"
    /\ failedSpaces' = Append(failedSpaces, spaces[spaceIdx].Key)
    /\ spaceIdx' = NextSpaceIndex(spaceIdx, Len(spaces), TRUE)
    /\ mPc' = "spaceLoop"
    /\ UNCHANGED <<colVars, srvVars, treeVars, spaceKey, srvSpaces, srvPages,
                   spaces, pages, pageIdx, saveLog, hState, closeCalls,
                   exitCode, processed,
                   initCalls, exportCalls, otherVars>>

\* GetPages returned the pages of the space.
ExportSpaceListed ==
    /\ mPc = "pagesListing"
    /\ cPc = "done"
    /\ pages' = cRet.pages
    /\ pageIdx' = 1
    /\ mPc' = "pageLoop"
    /\ UNCHANGED <<colVars, srvVars, treeVars, spaceKey, srvSpaces, srvPages,
                   spaces, spaceIdx, saveLog, hState, closeCalls, exitCode,
                   processed, failedSpaces,
                   initCalls, exportCalls, otherVars>>

\* One iteration of for _, page := range pages in exportSpace.
ExportSpaceSavePage ==
    /\ mPc = "pageLoop"
    /\ pageIdx <= Len(pages)
    /\ SavePageAt(spaces[spaceIdx].Key)
    /\ UNCHANGED <<colVars, srvVars, treeVars, mPc, spaceKey, srvSpaces,
                   srvPages, spaces, spaceIdx, pages, hState, closeCalls,
                   exitCode, processed, failedSpaces,
                   initCalls, exportCalls, otherVars>>

\* exportSpace returns nil: progress.Update(), next space.
ExportSpaceReturn ==
    /\ mPc = "pageLoop"
    /\ pageIdx > Len(pages)
    /\ processed' = processed + 1
    /\ spaceIdx' = NextSpaceIndex(spaceIdx, Len(spaces), FALSE)
    /\ mPc' = "spaceLoop"
    /\ UNCHANGED <<colVars, srvVars, treeVars, spaceKey, srvSpaces, srvPages,
                   spaces, pages, pageIdx, saveLog, hState, closeCalls,
                   exitCode, failedSpaces,
                   initCalls, exportCalls, otherVars>>

\* The loop over spaces is over; main runs to its end.
MainSpacesDone ==
    /\ mPc = "spaceLoop"
    /\ spaceIdx > Len(spaces)
    /\ ReturnFromMain
    /\ UNCHANGED <<colVars, srvVars, treeVars, spaceKey, srvSpaces, srvPages,
                   spaces, spaceIdx, pages, pageIdx, saveLog, processed,
                   failedSpaces,
                   initCalls, exportCalls, otherVars>>

(***************************************************************************)
(* SpecMain: one run of main, in page-tree mode (cfg.Export.PageID set)    *)
(* or in space mode.  The child listings of a run are free of cycles (a    *)
(* page may still be listed twice); cyclic listings are SpecTree's.        *)
(***************************************************************************)
\* The pages of space k, n of them; ids differ from space to space.
SpacePages(k, n) == [i \in 1..n |-> (k - 1) * MaxSpacePages + i]

InitMain ==
    /\ cPc = "idle"
    /\ cKind = "none"
    /\ cList = <<>>
    /\ cParent = 0
    /\ start = 0
    /\ allPages = <<>>
    /\ cRet = NoRet
    /\ requests = <<>>
    /\ responses = <<>>
    /\ faults = 0
    /\ tPc = "idle"
    /\ stack = <<>>
    /\ tRet = NoRet
    /\ listed = <<>>
    /\ callErrors = <<>>
    /\ mPc = "start"
    /\ spaces = <<>>
    /\ spaceIdx = 1
    /\ pages = <<>>
    /\ pageIdx = 1
    /\ saveLog = <<>>
    /\ hState = "none"
    /\ closeCalls = 0
    /\ exitCode = -1
    /\ processed = 0
    /\ failedSpaces = <<>>
    /\ initCalls = 0
    /\ exportCalls = <<>>
    /\ StoreOff
    /\ NamesOff
    /\ FileOff
    /\ \/ /\ rootPageID \in 1..MaxMainNodes
          /\ spaceKey = 0
          /\ \E p \in ParentMaps(MaxMainNodes), descending \in BOOLEAN,
                edge \in ForwardEdges(MaxMainNodes) :
                 /\ kids = Listing(p, descending, edge)
                 /\ ancestor = Ancestors(p)
          /\ srvSpaces = <<>>
          /\ srvPages = [k \in 1..MaxSpaces |-> <<>>]
       \/ /\ rootPageID = 0
          /\ spaceKey \in 0..MaxSpaces
          /\ kids = [i \in 0..MaxNodes |-> <<>>]
          /\ ancestor = [i \in 0..MaxNodes |-> 0]
          /\ srvSpaces \in {Records(n) : n \in 0..MaxSpaces}
          /\ \E count \in [1..MaxSpaces -> 0..MaxSpacePages] :
                 srvPages = [k \in 1..MaxSpaces |-> SpacePages(k, count[k])]

NextMain ==
    \/ MainNewHandler
    \/ MainInitialize
    \/ MainStartTree
    \/ MainTreeFailed
    \/ MainTreeReturned
    \/ MainTreeSavePage
    \/ MainTreeDone
    \/ MainStartSpaces
    \/ MainSingleSpace
    \/ MainSpacesListed
    \/ MainSpacesFailed
    \/ ExportSpaceCall
    \/ ExportSpaceFailed
    \/ ExportSpaceListed
    \/ ExportSpaceSavePage
    \/ ExportSpaceReturn
    \/ MainSpacesDone
    \/ GetPageOK
    \/ GetPageStatusJSON
    \/ GetPageError
    \/ TreeListed
    \/ TreeListFailed
    \/ TreeDescend
    \/ TreeReturn
    \/ SendRequest
    \/ RecvPage
    \/ RecvTransportError
    \/ RecvUndecodable
    \/ RecvStatusJSON

SpecMain == InitMain /\ [][NextMain]_vars

(***************************************************************************)
(* Package db: the table pages of the database file.  Both revisions of    *)
(* the package are modelled; dbRevision is the one a behaviour runs.       *)
(***************************************************************************)
Revisions == {"primaryKey", "plainInsert"}

\* The values of the columns title, body and link.
Texts == {"v1", "v2"}

\* type Page struct { Title, Body, Link, UID string }
DbPages == [UID : 1..MaxUids, Title : Texts, Body : Texts, Link : Texts]

\* The positions of the rows of a table with a uid.
RowsWith(table, uid) == {i \in DOMAIN table : table[i].UID = uid}

\* INSERT OR REPLACE INTO pages ... on a table with uid as PRIMARY KEY: the
\* row with the uid, if there is one, takes the new values.
InsertOrReplace(table, page) ==
    IF RowsWith(table, page.UID) = {}
      THEN Append(table, page)
      ELSE [i \in DOMAIN table |->
               IF table[i].UID = page.UID THEN page ELSE table[i]]

\* INSERT INTO pages ... on a table without a key.
PlainInsert(table, page) == Append(table, page)

\* The statement of InsertPage in a revision.
ExecInsert(revision, table, page) ==
    IF revision = "primaryKey" THEN InsertOrReplace(table, page)
    ELSE PlainInsert(table, page)

\* InitDB(dbPath): sql.Open, then CREATE TABLE IF NOT EXISTS pages.
InitDB ==
    /\ ~dbOpen
    /\ \/ /\ dbOpen' = TRUE
          /\ tableExists' = TRUE
          /\ dbErr' = "nil"
       \/ /\ dbErr' = "failed to open database"
          /\ UNCHANGED <<dbOpen, tableExists>>
       \/ /\ dbErr' = "failed to create table"
          /\ UNCHANGED <<dbOpen, tableExists>>
    /\ UNCHANGED <<dbRevision, rows, inserted>>
    /\ UNCHANGED <<colVars, srvVars, treeVars, driverVars, nameVars, fileVars>>

\* InsertPage(db, page) with the db of InitDB.
InsertPage ==
    /\ dbOpen
    /\ Len(inserted) < MaxInserts
    /\ \E page \in DbPages :
           \/ /\ rows' = ExecInsert(dbRevision, rows, page)
              /\ inserted' = Append(inserted, page)
              /\ dbErr' = "nil"
           \/ /\ dbErr' = "failed to insert page"
              /\ UNCHANGED <<rows, inserted>>
    /\ UNCHANGED <<dbRevision, dbOpen, tableExists>>
    /\ UNCHANGED <<colVars, srvVars, treeVars, driverVars, nameVars, fileVars>>

\* CloseDB(db): the end of a run on the database file.
CloseDB ==
    /\ dbOpen
    /\ dbOpen' = FALSE
    /\ UNCHANGED <<dbRevision, tableExists, rows, inserted, dbErr>>
    /\ UNCHANGED <<colVars, srvVars, treeVars, driverVars, nameVars, fileVars>>

(***************************************************************************)
(* SpecStore: runs of InitDB, InsertPage ..., CloseDB on one database      *)
(* file that starts without the table.                                     *)
(***************************************************************************)
InitStore ==
    /\ ClientOff
    /\ DriverOff
    /\ NamesOff
    /\ FileOff
    /\ dbRevision \in Revisions
    /\ dbOpen = FALSE
    /\ tableExists = FALSE
    /\ rows = <<>>
    /\ inserted = <<>>
    /\ dbErr = "nil"

NextStore ==
    \/ InitDB
    \/ InsertPage
    \/ CloseDB

SpecStore == InitStore /\ [][NextStore]_vars

(***************************************************************************)
(* getSafeFilename.  A string is the sequence of its characters.           *)
(***************************************************************************)
\* The characters the names of the model are made of: the ten characters
\* the replacer knows, the two it writes, and two it leaves alone.
Chars == {"/", "\\", ":", "*", "?", "\"", "<", ">", "|", " ",
          "-", "_", "a", "."}

ReplacerPairs_NoBackslash ==
    << <<"/", "-">>, <<":", "-">>, <<"*", "-">>, <<"?", "-">>,
       <<"\"", "-">>, <<"<", "-">>, <<">", "-">>, <<"|", "-">>,
       <<" ", "_">> >>

\* The arguments of strings.NewReplacer, as (old, new) pairs.
ReplacerPairs ==
    << <<"/", "-">>, <<"\\", "-">>, <<":", "-">>, <<"*", "-">>,
       <<"?", "-">>, <<"\"", "-">>, <<"<", "-">>, <<">", "-">>,
       <<"|", "-">>, <<" ", "_">> >>

\* replacer.Replace at one character: the first pair whose old string is
\* the character gives the replacement; a character of no pair stays.
ReplaceChar(c) ==
    LET hits == {i \in DOMAIN ReplacerPairs : ReplacerPairs[i][1] = c}
    IN  IF hits = {} THEN c
        ELSE ReplacerPairs[CHOOSE i \in hits : \A j \in hits : i <= j][2]

\* replacer.Replace(name): every old string is one character long, so the
\* characters are replaced one by one.
getSafeFilename(n) == [i \in 1..Len(n) |-> ReplaceChar(n[i])]

CallGetSafeFilename ==
    /\ safeName = <<"pending">>
    /\ safeName' = getSafeFilename(name)
    /\ UNCHANGED name
    /\ UNCHANGED <<colVars, srvVars, treeVars, driverVars, storeVars, fileVars>>

(***************************************************************************)
(* SpecNames: getSafeFilename applied to a name of 0..MaxNameLen           *)
(* characters.                                                             *)
(***************************************************************************)
Names(maxLen) == UNION {[1..k -> Chars] : k \in 0..maxLen}

InitNames ==
    /\ ClientOff
    /\ DriverOff
    /\ StoreOff
    /\ FileOff
    /\ name \in Names(MaxNameLen)
    /\ safeName = <<"pending">>

NextNames == CallGetSafeFilename

SpecNames == InitNames /\ [][NextNames]_vars

(***************************************************************************)
(* exportSpace of the revision that writes the Markdown files itself.      *)
(* The outcome of GetPages, MkdirAll, ConvertToMarkdown, WriteFile,        *)
(* GetAttachments and downloadAttachment is the environment's.             *)
(***************************************************************************)
\* The titles of the pages of the space.
FileTitles == { <<"a">>, <<"a", "/", "b">>, <<"a", ":", "b">>,
                <<"a", "-", "b">> }

\* The spaces of up to n pages the server may hold: page i has ID i and
\* Content i, and no two pages of the space have the same title.
FileSpaces(n) ==
    {[i \in 1..k |-> [ID |-> i, Title |-> t[i], Content |-> i]] :
        k \in 0..n,
        t \in {u \in [1..n -> FileTitles] :
                  \A i, j \in 1..n : i # j => u[i] # u[j]}}

\* converter.ConvertToMarkdown(page.Content), when it returns no error.
ConvertToMarkdown(content) == [md |-> content]

\* filepath.Join(spaceOutputDir, safeFilename+".md"), within spaceOutputDir.
OutputPath(title) == getSafeFilename(title) \o <<".md">>

\* os.WriteFile(outputPath, []byte(markdown), 0644) on the directory.
WriteFile(dir, path, content) ==
    [f \in DOMAIN dir \cup {path} |-> IF f = path THEN content ELSE dir[f]]

FetchAttachments_Always(include) == TRUE

\* if cfg.Export.IncludeAttachments { ... }
FetchAttachments(include) == include

FileEvent(op, ok) == [op |-> op, page |-> filePages[fileIdx].ID, ok |-> ok]

\* continue, or the end of the loop body: the next page.
FileNextPage ==
    /\ fileIdx' = fileIdx + 1
    /\ fPc' = "convert"

\* exportSpace(client, spaceKey, cfg, progress): client.GetPages(spaceKey)
FileExportCall ==
    /\ fPc = "call"
    /\ \/ /\ filePages' = srvFilePages
          /\ fPc' = "mkdir"
          /\ UNCHANGED fileRet
       \/ /\ fileRet' = "error"
          /\ fPc' = "returned"
          /\ UNCHANGED filePages
    /\ UNCHANGED <<srvFilePages, includeAttachments, fileIdx, markdown, files,
                   attachments, attIdx, fileLog>>
    /\ UNCHANGED <<colVars, srvVars, treeVars, driverVars, storeVars, nameVars>>

\* os.MkdirAll(spaceOutputDir, 0755)
FileMkdir ==
    /\ fPc = "mkdir"
    /\ \/ /\ fPc' = "convert"
          /\ UNCHANGED fileRet
       \/ /\ fileRet' = "error"
          /\ fPc' = "returned"
    /\ UNCHANGED <<srvFilePages, includeAttachments, filePages, fileIdx,
                   markdown, files, attachments, attIdx, fileLog>>
    /\ UNCHANGED <<colVars, srvVars, treeVars, driverVars, storeVars, nameVars>>

\* for _, page := range pages: converter.ConvertToMarkdown(page.Content)
FileConvert ==
    /\ fPc = "convert"
    /\ fileIdx <= Len(filePages)
    /\ \/ /\ markdown' = ConvertToMarkdown(filePages[fileIdx].Content)
          /\ fileLog' = Append(fileLog, FileEvent("convert", TRUE))
          /\ fPc' = "write"
          /\ UNCHANGED fileIdx
       \/ /\ fileLog' = Append(fileLog, FileEvent("convert", FALSE))
          /\ FileNextPage
          /\ UNCHANGED markdown
    /\ UNCHANGED <<srvFilePages, includeAttachments, filePages, files,
                   attachments, attIdx, fileRet>>
    /\ UNCHANGED <<colVars, srvVars, treeVars, driverVars, storeVars, nameVars>>

\* safeFilename := getSafeFilename(page.Title); os.WriteFile(outputPath, ...)
FileWrite ==
    /\ fPc = "write"
    /\ \/ /\ files' = WriteFile(files, OutputPath(filePages[fileIdx].Title),
                                 markdown)
          /\ fileLog' = Append(fileLog, FileEvent("write", TRUE))
          /\ IF FetchAttachments(includeAttachments)
               THEN fPc' = "attachments" /\ UNCHANGED fileIdx
               ELSE FileNextPage
       \/ /\ fileLog' = Append(fileLog, FileEvent("write", FALSE))
          /\ FileNextPage
          /\ UNCHANGED files
    /\ UNCHANGED <<srvFilePages, includeAttachments, filePages, markdown,
                   attachments, attIdx, fileRet>>
    /\ UNCHANGED <<colVars, srvVars, treeVars, driverVars, storeVars, nameVars>>

\* client.GetAttachments(page.ID)
FileGetAttachments ==
    /\ fPc = "attachments"
    /\ \/ /\ \E n \in 0..MaxAttachments :
                 /\ attachments' = [j \in 1..n |-> j]
                 /\ IF n > 0
                      THEN fPc' = "mkdirAttachments" /\ UNCHANGED fileIdx
                      ELSE FileNextPage
          /\ fileLog' = Append(fileLog, FileEvent("listAttachments", TRUE))
       \/ /\ fileLog' = Append(fileLog, FileEvent("listAttachments", FALSE))
          /\ FileNextPage
          /\ UNCHANGED attachments
    /\ UNCHANGED <<srvFilePages, includeAttachments, filePages, markdown,
                   files, attIdx, fileRet>>
    /\ UNCHANGED <<colVars, srvVars, treeVars, driverVars, storeVars, nameVars>>

\* os.MkdirAll(attachmentsDir, 0755)
FileMkdirAttachments ==
    /\ fPc = "mkdirAttachments"
    /\ \/ /\ fPc' = "download"
          /\ attIdx' = 1
          /\ UNCHANGED fileIdx
       \/ /\ FileNextPage
          /\ UNCHANGED attIdx
    /\ UNCHANGED <<srvFilePages, includeAttachments, filePages, markdown,
                   files, attachments, fileLog, fileRet>>
    /\ UNCHANGED <<colVars, srvVars, treeVars, driverVars, storeVars, nameVars>>

\* for _, attachment := range attachments: downloadAttachment(...)
FileDownload ==
    /\ fPc = "download"
    /\ IF attIdx <= Len(attachments)
         THEN /\ \E ok \in BOOLEAN :
                     fileLog' = Append(fileLog, FileEvent("download", ok))
              /\ attIdx' = attIdx + 1
              /\ UNCHANGED <<fPc, fileIdx>>
         ELSE /\ FileNextPage
              /\ UNCHANGED <<attIdx, fileLog>>
    /\ UNCHANGED <<srvFilePages, includeAttachments, filePages, markdown,
                   files, attachments, fileRet>>
    /\ UNCHANGED <<colVars, srvVars, treeVars, driverVars, storeVars, nameVars>>

\* The loop over pages is over: return nil.
FileExportReturn ==
    /\ fPc = "convert"
    /\ fileIdx > Len(filePages)
    /\ fileRet' = "nil"
    /\ fPc' = "returned"
    /\ UNCHANGED <<srvFilePages, includeAttachments, filePages, fileIdx,
                   markdown, files, attachments, attIdx, fileLog>>
    /\ UNCHANGED <<colVars, srvVars, treeVars, driverVars, storeVars, nameVars>>

(***************************************************************************)
(* SpecFile: one call of the file-writing exportSpace for a space of       *)
(* 0..MaxFilePages pages, into an empty output directory.                  *)
(***************************************************************************)
InitFile ==
    /\ ClientOff
    /\ DriverOff
    /\ StoreOff
    /\ NamesOff
    /\ fPc = "call"
    /\ srvFilePages \in FileSpaces(MaxFilePages)
    /\ includeAttachments \in BOOLEAN
    /\ filePages = <<>>
    /\ fileIdx = 1
    /\ markdown = 0
    /\ files = <<>>
    /\ attachments = <<>>
    /\ attIdx = 1
    /\ fileLog = <<>>
    /\ fileRet = "none"

NextFile ==
    \/ FileExportCall
    \/ FileMkdir
    \/ FileConvert
    \/ FileWrite
    \/ FileGetAttachments
    \/ FileMkdirAttachments
    \/ FileDownload
    \/ FileExportReturn

SpecFile == InitFile /\ [][NextFile]_vars

(***************************************************************************)
(* Properties of the paginated collection (checked under SpecCollect).     *)
(***************************************************************************)
\* The ids of a returned sequence, in order.
IdsOf(seq) ==
    [i \in 1..Len(seq) |->
        IF "Key" \in DOMAIN seq[i] THEN seq[i].Key ELSE seq[i].ID]

\* The results of the first k responses, concatenated in response order.
RECURSIVE ReceivedUpTo(_)
ReceivedUpTo(k) ==
    IF k = 0 THEN <<>> ELSE ReceivedUpTo(k - 1) \o responses[k].results

\* Every response so far was the faithful one: status 200, a JSON body, and
\* exactly the records at positions start .. start+limit-1 of the request.
ServedFaithfully ==
    \A k \in 1..Len(responses) :
        /\ responses[k].status = 200
        /\ responses[k].decoded
        /\ responses[k].results = [i \in 1..Min(requests[k].limit,
                                        IF Len(cList) > requests[k].start
                                          THEN Len(cList) - requests[k].start
                                          ELSE 0)
                                   |-> cList[requests[k].start + i]]

\* C1: against a server that serves a fixed list of N records faithfully, a
\* finished collection returns no error and exactly the N records, each once
\* and in list order, which is the concatenation of the pages it received.
C1_CollectsWholeList ==
    (cPc = "done" /\ ServedFaithfully) =>
        /\ cRet.err = "nil"
        /\ Len(cRet.pages) = Len(cList)
        /\ IdsOf(cRet.pages) = cList
        /\ IdsOf(cRet.pages) = ReceivedUpTo(Len(responses))

\* The spec's scenario: 30 records, two requests (25 then 5), 30 returned.
C1_Witness ==
    /\ cPc = "done" /\ ServedFaithfully
    /\ Len(cList) = 30
    /\ Len(responses) = 2
    /\ Len(responses[1].results) = 25 /\ Len(responses[2].results) = 5
    /\ Len(cRet.pages) = 30

\* C2: served faithfully, the collection never issues more than
\* floor(N/limit)+1 requests and ends with exactly that many; every response
\* but the last holds limit records, the last fewer, and none at all when N
\* is a multiple of limit (N = 0 included).
C2_RequestCount ==
    ServedFaithfully =>
        LET n == Len(cList)
            want == (n \div limit) + 1
        IN  /\ Len(requests) <= want
            /\ cPc \in {"idle", "loop", "await", "done"}
            /\ (cPc = "loop" => Len(requests) < want)
            /\ (cPc = "done" =>
                    /\ Len(requests) = want
                    /\ Len(responses) = want
                    /\ \A k \in 1..(want - 1) :
                           Len(responses[k].results) = limit
                    /\ Len(responses[want].results) < limit
                    /\ (n % limit = 0 => responses[want].results = <<>>))

\* 50 records: three requests, the third answered with no record.
C2_Witness ==
    /\ cPc = "done" /\ ServedFaithfully
    /\ Len(cList) = 2 * limit
    /\ Len(requests) = 3
    /\ responses[3].results = <<>>

\* C3: the k-th request (from 0) carries start = k * limit, whatever the
\* earlier responses held; the first decoded response with fewer than limit
\* records is the last request of the collection, which then returns what
\* it received and nothing beyond.
C3_OffsetsAndShortPage ==
    /\ \A k \in 1..Len(requests) :
           /\ requests[k].start = (k - 1) * limit
           /\ requests[k].limit = limit
    /\ \A k \in 1..Len(responses) :
           (responses[k].decoded /\ Len(responses[k].results) < limit) =>
               /\ k = Len(requests)
               /\ cPc = "done"
               /\ cRet.err = "nil"
               /\ IdsOf(cRet.pages) = ReceivedUpTo(k)

\* A full first page, then a page the server cut short although it holds
\* more records: the collection ends there and the rest is missing.
C3_Witness ==
    /\ cPc = "done"
    /\ Len(requests) = 2
    /\ Len(responses[1].results) = limit
    /\ responses[2].status = 200
    /\ Len(responses[2].results) = 10
    /\ Len(cList) = 50
    /\ Len(cRet.pages) = 35

\* C4: a request that fails (transport error or undecodable body) is the
\* last request of the collection, and the call returns that error and no
\* record, whatever it had accumulated.
C4_AllOrNothing ==
    /\ \A k \in 1..Len(responses) :
           ~responses[k].decoded =>
               /\ k = Len(responses)
               /\ k = Len(requests)
               /\ cPc = "failed"
    /\ cPc = "failed" =>
           /\ cRet.pages = <<>>
           /\ cRet.err \in {"transport", "decode"}
           /\ ~responses[Len(responses)].decoded
           /\ ~ENABLED SendRequest

\* Two full pages accumulated, then the third request fails.
C4_Witness ==
    /\ cPc = "failed"
    /\ Len(responses) = 3
    /\ Len(allPages) = 2 * limit
    /\ cRet.pages = <<>>

\* C5: a response with a non-2xx status makes the call return an error.
C5_Non2xxIsError ==
    \A k \in 1..Len(responses) :
        (responses[k].status # 0 /\ ~Is2xx(responses[k].status)) =>
            /\ cPc = "failed"
            /\ cRet.err # "nil"

(***************************************************************************)
(* Properties of the tree resolution (checked under SpecTree).             *)
(***************************************************************************)
\* The pages reachable from the pages of S through the child listings.
ListedUnder(a) == {kids[a][j] : j \in DOMAIN kids[a]}

RECURSIVE Closure(_, _)
Closure(S, n) ==
    IF n = 0 THEN S
    ELSE Closure(S \cup UNION {ListedUnder(a) : a \in S}, n - 1)

\* The pages of the walk from root: root and all it lists, transitively.
Reach(root) == Closure({root}, MaxNodes)

\* The descendants of page a, a itself only if it is listed below itself.
Below(a) == Closure(ListedUnder(a), MaxNodes)

\* How often page n is listed as a child of a page of R.
TimesListed(n, R) ==
    Cardinality({aj \in R \X (1..(MaxNodes + 1)) :
                    aj[2] \in DOMAIN kids[aj[1]] /\ kids[aj[1]][aj[2]] = n})

\* The listings below root form a tree: root is no one's child and every
\* other page is the child of one page, once.
IsTreeFrom(root) ==
    LET R == Reach(root)
    IN  /\ TimesListed(root, R) = 0
        /\ \A n \in R \ {root} : TimesListed(n, R) = 1

\* Some page of the walk from root is listed below itself.
HasCycleFrom(root) == \E n \in Reach(root) : n \in Below(n)

\* The pre-order of the tree below page n, children in listing order.
RECURSIVE PreOrder(_), PreOrderAll(_)
PreOrder(n) == <<n>> \o PreOrderAll(kids[n])
PreOrderAll(seq) ==
    IF seq = <<>> THEN <<>> ELSE PreOrder(Head(seq)) \o PreOrderAll(Tail(seq))

Distinct(seq) == \A i, j \in 1..Len(seq) : i # j => seq[i] # seq[j]

\* C6: on an acyclic tree in which every page has one parent, served
\* faithfully, fetchPageTree returns the pre-order of the tree below
\* rootPageID: the root first, then the subtree of each child in listing
\* order; every page once, as many pages as the tree has nodes.
C6_PreOrder ==
    (faults = 0 /\ IsTreeFrom(rootPageID)) =>
        /\ tPc \notin {"failed", "overflow"}
        /\ Len(stack) <= Cardinality(Reach(rootPageID))
        /\ tPc = "returned" =>
               /\ tRet.err = "nil"
               /\ IdsOf(tRet.pages) = PreOrder(rootPageID)
               /\ tRet.pages[1].ID = rootPageID
               /\ Distinct(IdsOf(tRet.pages))
               /\ {tRet.pages[i].ID : i \in 1..Len(tRet.pages)} = Reach(rootPageID)
               /\ Len(tRet.pages) = Cardinality(Reach(rootPageID))

\* The spec's scenario: R = 1 with children [A, B] = [2, 4], A with child
\* [A1] = [3], gives [R, A, A1, B].
C6_Witness ==
    /\ tPc = "returned" /\ faults = 0
    /\ rootPageID = 1
    /\ kids[1] = <<2, 4>> /\ kids[2] = <<3>> /\ kids[3] = <<>> /\ kids[4] = <<>>
    /\ IdsOf(tRet.pages) = <<1, 2, 3, 4>>

\* C7: on listings with a cycle fetchPageTree still returns: its recursion
\* never runs until the stack is exhausted.
C7_ReturnsOnCycle ==
    HasCycleFrom(rootPageID) => tPc # "overflow"

\* C8: no page id is emitted twice and GetChildPages is called at most once
\* per id.
C8_NoRevisit ==
    /\ Distinct(listed)
    /\ tPc = "returned" => Distinct(IdsOf(tRet.pages))

\* C9: when GetPage or any GetChildPages call returns an error,
\* fetchPageTree makes no further call and returns that error and no page.
C9_TreeAllOrNothing ==
    /\ callErrors # <<>> =>
           /\ Len(callErrors) = 1
           /\ tPc \in {"listing", "failed"}
           /\ tPc = "listing" => (cPc = "failed" /\ ~ENABLED TreeListed
                                     /\ ~ENABLED TreeDescend /\ ~ENABLED TreeReturn
                                     /\ ~ENABLED SendRequest)
    /\ tPc = "failed" =>
           /\ callErrors # <<>>
           /\ tRet.pages = <<>>
           /\ tRet.err = callErrors[1]
           /\ stack = <<>>
           /\ ~ENABLED NextTree

\* The listing of a page at depth 2 fails after the root and a whole
\* subtree were collected.
C9_Witness ==
    /\ tPc = "failed"
    /\ tRet.pages = <<>>
    /\ tRet.err = "transport"
    /\ Len(listed) >= 3
    /\ cParent # rootPageID /\ cParent # 0

\* Every page of a sequence but the first has as ParentID the ID of a page
\* earlier in the sequence.
ParentBeforeChild(seq) ==
    \A j \in 2..Len(seq) : \E i \in 1..(j - 1) : seq[j].ParentID = seq[i].ID

\* C21: the pages an active call of fetchPageTree / collectChildPages has
\* collected start with the page of the call and hold every other page
\* after a page whose ID is its ParentID; a sequence fetchPageTree returns
\* is not empty, has this order, and starts with the page GetPage returned
\* for rootPageID (the page of the bottom call), which carries rootPageID
\* when GetPage was answered faithfully.
C21_ParentBeforeChild ==
    /\ [](/\ \A d \in DOMAIN stack :
                 /\ stack[d].pages[1] = stack[d].page
                 /\ ParentBeforeChild(stack[d].pages)
          /\ tPc = "returned" =>
                 /\ tRet.err = "nil"
                 /\ Len(tRet.pages) >= 1
                 /\ ParentBeforeChild(tRet.pages)
                 /\ tRet.pages[1].ID \in {rootPageID, 0}
                 /\ faults = 0 => tRet.pages[1].ID = rootPageID)
    /\ [][(tPc # "returned" /\ tPc' = "returned") =>
              tRet'.pages[1] = stack[1].page]_vars

\* A returned sequence with a page at depth 2 and a page listed twice:
\* each stands after a page with its ParentID.
C21_Witness ==
    /\ tPc = "returned" /\ faults = 0
    /\ Len(tRet.pages) >= 4
    /\ tRet.pages[3].ParentID = tRet.pages[2].ID
    /\ tRet.pages[2].ParentID = tRet.pages[1].ID
    /\ ~Distinct(IdsOf(tRet.pages))

(***************************************************************************)
(* Properties of the driver (checked under SpecMain).                      *)
(***************************************************************************)
\* The page ids SavePage was called with for a scope, in call order.
RECURSIVE AttemptsOf(_, _)
AttemptsOf(scope, log) ==
    IF log = <<>> THEN <<>>
    ELSE (IF Head(log).scope = scope THEN <<Head(log).page>> ELSE <<>>)
            \o AttemptsOf(scope, Tail(log))

Prefix(seq, n) == [i \in 1..Min(n, Len(seq)) |-> seq[i]]

\* C10: in the loop over the pages of a scope, whatever SavePage returned
\* for the earlier pages, the pages passed to SavePage so far are exactly
\* the pages before the loop's position, in list order; when the loop is
\* over, every page of the list was passed to SavePage.
C10_FailureIsolation ==
    /\ mPc = "pageLoop" =>
           /\ pageIdx \in 1..(Len(pages) + 1)
           /\ AttemptsOf(spaces[spaceIdx].Key, saveLog)
                  = Prefix(IdsOf(pages), pageIdx - 1)
    /\ mPc = "treeLoop" =>
           /\ pageIdx \in 1..(Len(pages) + 1)
           /\ AttemptsOf(TreeScope, saveLog) = Prefix(IdsOf(pages), pageIdx - 1)
    /\ (mPc = "exited" /\ exitCode = 0 /\ rootPageID # 0) =>
           AttemptsOf(TreeScope, saveLog) = IdsOf(pages)

\* Page-tree mode: SavePage failed for the first page and the two further
\* pages were still passed to it.
C10_Witness ==
    /\ mPc = "exited" /\ exitCode = 0
    /\ rootPageID # 0
    /\ Len(saveLog) = 3
    /\ saveLog[1].result = "error"
    /\ saveLog[3].result = "nil"

\* The keys of a sequence of spaces.
KeysOf(seq) == [i \in 1..Len(seq) |-> seq[i].Key]

\* C11: when GetPages returns an error for a space, exportSpace returns the
\* error (the space is recorded as failed on return to the loop), SavePage
\* is never called with a page of that space, and the loop goes on:
\* exportSpace is called for the spaces of the run one after the other, at
\* the end of the run for every one of them.
C11_SpaceFailureIsolation ==
    /\ \A i \in DOMAIN failedSpaces :
           AttemptsOf(failedSpaces[i], saveLog) = <<>>
    /\ (mPc = "spaceLoop" /\ cKind = "GetPages" /\ cPc = "failed") =>
           /\ failedSpaces # <<>>
           /\ failedSpaces[Len(failedSpaces)] = spaces[spaceIdx - 1].Key
    /\ mPc = "spaceLoop" =>
           exportCalls = Prefix(KeysOf(spaces), spaceIdx - 1)
    /\ mPc \in {"pagesListing", "pageLoop"} =>
           exportCalls = Prefix(KeysOf(spaces), spaceIdx)
    /\ (mPc = "exited" /\ exitCode = 0 /\ rootPageID = 0) =>
           exportCalls = KeysOf(spaces)

\* Listing the pages of the first of two spaces failed although the server
\* holds pages for it; none of them was saved, and the pages of the second
\* space were.
C11_Witness ==
    /\ mPc = "exited" /\ exitCode = 0
    /\ Len(spaces) = 2
    /\ failedSpaces = <<spaces[1].Key>>
    /\ srvPages[spaces[1].Key] # <<>>
    /\ AttemptsOf(spaces[2].Key, saveLog) # <<>>

\* A discovery call of the run returned an error.
SpacesListingFailed == cKind = "GetSpaces" /\ cPc = "failed"
TreeResolutionFailed == tPc = "failed"
SinkReady == hState \in {"initialized", "closed"}

C15_CloseOnEveryPath ==
    /\ closeCalls <= 1
    /\ (mPc = "exited" /\ hState # "none") => closeCalls = 1

\* The page ids SavePage was called with, in call order.
SavedIds == [i \in 1..Len(saveLog) |-> saveLog[i].page]

\* C16: in a run against a faithful server that ended normally, no page id
\* was passed to SavePage twice and every page of the scope was passed to
\* it: in page-tree mode the pages reachable from the root page, in space
\* mode the pages of each space of the run.
C16_ExactlyOnce ==
    (mPc = "exited" /\ exitCode = 0 /\ faults = 0) =>
        /\ Distinct(SavedIds)
        /\ rootPageID # 0 =>
               {SavedIds[i] : i \in DOMAIN SavedIds} = Reach(rootPageID)
        /\ rootPageID = 0 =>
               \A i \in DOMAIN spaces :
                   AttemptsOf(spaces[i].Key, saveLog)
                       = srvPages[spaces[i].Key]

\* The number of SavePage calls of the run with a result.
SaveCount(result) ==
    Cardinality({i \in DOMAIN saveLog : saveLog[i].result = result})

\* C19: at the end of a run the processed count is the number of items
\* exported without failure: in page-tree mode the pages SavePage returned
\* nil for, in space mode the spaces exportSpace returned nil for.
C19_ProcessedExcludesFailed ==
    (mPc = "exited" /\ exitCode = 0) =>
        /\ rootPageID # 0 => processed = SaveCount("nil")
        /\ rootPageID = 0 => processed = Len(spaces) - Len(failedSpaces)

\* A call of the client has begun: no Transport request is sent before.
ClientUsed == cPc # "idle" \/ tPc # "idle"

\* C20: Initialize is called at most once; SavePage is called and a call
\* of the client is begun only after the one Initialize call returned
\* nil; when Initialize returned an error the run is over with no SavePage
\* call and no call of the client; after Close there is no SavePage call.
C20_SinkLifecycle ==
    /\ [](/\ initCalls <= 1
          /\ (saveLog # <<>> \/ ClientUsed) =>
                 (initCalls = 1 /\ SinkReady)
          /\ (initCalls = 1 /\ ~SinkReady) =>
                 (mPc = "exited" /\ saveLog = <<>> /\ ~ClientUsed))
    /\ [][hState = "closed" => saveLog' = saveLog]_vars

\* A run that initialised the sink once, saved pages and closed the sink.
C20_Witness ==
    /\ mPc = "exited" /\ exitCode = 0
    /\ initCalls = 1
    /\ hState = "closed"
    /\ Len(saveLog) >= 2
    /\ ClientUsed

(***************************************************************************)
(* Properties of package db (checked under SpecStore).                     *)
(***************************************************************************)
\* The page of the last InsertPage call that returned nil for a uid.
RECURSIVE LastInserted(_, _)
LastInserted(seq, uid) ==
    IF seq[Len(seq)].UID = uid THEN seq[Len(seq)]
    ELSE LastInserted(SubSeq(seq, 1, Len(seq) - 1), uid)

UpsertHolds ==
    \A uid \in 1..MaxUids :
        /\ Cardinality(RowsWith(rows, uid)) <= 1
        /\ (\E i \in DOMAIN inserted : inserted[i].UID = uid) =>
               \E r \in RowsWith(rows, uid) :
                   rows[r] = LastInserted(inserted, uid)

\* C13: after any sequence of InsertPage calls the table pages holds at
\* most one row per uid, and that row carries the title, body and link of
\* the last InsertPage call made with the uid, also when the calls belong
\* to two runs on the same database file.
C13_Upsert == tableExists => UpsertHolds

\* The revision with uid as PRIMARY KEY and INSERT OR REPLACE keeps one row
\* per uid.
PrimaryKeyRevisionUpserts == dbRevision = "primaryKey" => UpsertHolds

(***************************************************************************)
(* Properties of getSafeFilename (checked under SpecNames).                *)
(***************************************************************************)
PathHostile == {"/", "\\", ":", "*", "?", "\"", "<", ">", "|"}

\* C14: the result of getSafeFilename has the length of the name, holds
\* none of the nine path-hostile characters and no space, holds '-' where
\* the name held a path-hostile character and '_' where it held a space,
\* and holds the character of the name at every other position.
C14_SafeFilename ==
    safeName # <<"pending">> =>
        /\ Len(safeName) = Len(name)
        /\ \A i \in 1..Len(name) :
               /\ safeName[i] \notin PathHostile \cup {" "}
               /\ name[i] \in PathHostile => safeName[i] = "-"
               /\ name[i] = " " => safeName[i] = "_"
               /\ name[i] \notin PathHostile \cup {" "} =>
                      safeName[i] = name[i]

\* The name a\ became a-.
C14_Witness ==
    /\ name = <<"a", "\\">>
    /\ safeName = <<"a", "-">>

(***************************************************************************)
(* Properties of the file-writing exportSpace (checked under SpecFile).    *)
(***************************************************************************)
\* Every conversion and every write of the call succeeded.
AllWritten ==
    \A i \in DOMAIN fileLog :
        fileLog[i].op \in {"convert", "write"} => fileLog[i].ok

\* C17: after exportSpace returned nil for a space of N pages (their ids
\* differ) with every conversion and write successful, the directory of
\* the space holds N .md files, and the file of each page holds the
\* converted body of that page.
C17_OneFilePerPage ==
    (fPc = "returned" /\ fileRet = "nil" /\ AllWritten) =>
        /\ Cardinality(DOMAIN files) = Len(filePages)
        /\ \A i \in DOMAIN filePages :
               /\ OutputPath(filePages[i].Title) \in DOMAIN files
               /\ files[OutputPath(filePages[i].Title)]
                      = ConvertToMarkdown(filePages[i].Content)

\* The file names of the pages of the space differ.
DistinctOutputPaths ==
    \A i, j \in DOMAIN filePages :
        i # j => OutputPath(filePages[i].Title) # OutputPath(filePages[j].Title)

\* One file per page where no two pages of the space share a file name.
OneFilePerDistinctPath == DistinctOutputPaths => C17_OneFilePerPage

\* C18: with includeAttachments false no attachment listing and no
\* attachment download is requested; with includeAttachments true the
\* attachment listing of a page is requested only right after the
\* successful write of the Markdown file of that page, and an attachment
\* is downloaded only after the listing of its page succeeded.
C18_AttachmentsOnDemand ==
    /\ ~includeAttachments =>
           \A i \in DOMAIN fileLog :
               fileLog[i].op \notin {"listAttachments", "download"}
    /\ \A i \in DOMAIN fileLog :
           /\ fileLog[i].op = "listAttachments" =>
                  /\ i > 1
                  /\ fileLog[i - 1] =
                         [op |-> "write", page |-> fileLog[i].page, ok |-> TRUE]
           /\ fileLog[i].op = "download" =>
                  \E j \in 1..(i - 1) :
                      fileLog[j] = [op |-> "listAttachments",
                                    page |-> fileLog[i].page, ok |-> TRUE]

\* With includeAttachments true: the write of the first page failed and no
\* listing was requested for it; the second page was written, its
\* attachments were listed and one was downloaded.
C18_Witness ==
    /\ includeAttachments
    /\ fPc = "returned" /\ fileRet = "nil"
    /\ Len(fileLog) = 6
    /\ fileLog[2] = [op |-> "write", page |-> 1, ok |-> FALSE]
    /\ fileLog[5] = [op |-> "listAttachments", page |-> 2, ok |-> TRUE]
    /\ fileLog[6].op = "download"

==========================================================================
